---- MODULE Spec2Model ----
(***************************************************************************)
(* A model of simple-calc: the lexer (src/src/token.rs), the Pratt parser  *)
(* (src/src/parse.rs), the tree-walking interpreter                        *)
(* (src/src/interpreter.rs) and the value model (src/src/types.rs).        *)
(*                                                                         *)
(* Source text is a sequence of one-character strings.  An f64 is modelled *)
(* by an extended rational [num, den] in lowest terms: den = 0 stands for  *)
(* +inf (num = 1), -inf (num = -1) and NaN (num = 0).  Rounding and the    *)
(* sign of zero are not modelled; the numerators and denominators of the   *)
(* source texts below stay within 32 bits.                                 *)
(***************************************************************************)
EXTENDS Integers, Sequences, FiniteSets, TLC

VARIABLES
    input,      \* the character buffer handed to Lexer::new
    parser,     \* the Parser once Parser::parse has returned
    program,    \* the Option<Vec<Statement>> returned by Parser::parse
    interp,     \* the Interpreter: global_context.vars and stack
    stdout,     \* the lines written by println!
    proc,       \* the process: running, panicked or exited with a code
    result,     \* the Primitive returned by the last call of eval
    evaluated,  \* the expression of the last call of eval
    heap,       \* the number of Rc<String> allocations made so far
    calls,      \* the number of calls of run and eval made so far
    parsing,    \* a call of Parser::parse under way: the parser and the call stack
    steps       \* the number of steps that call has taken, modulo 2

vars ==
    <<input, parser, program, interp, stdout, proc, result, evaluated, heap, calls,
      parsing, steps>>

----------------------------------------------------------------------------
(* f64 *)

Abs(i) == IF i < 0 THEN -i ELSE i

Sgn(i) == IF i < 0 THEN -1 ELSE IF i > 0 THEN 1 ELSE 0

RECURSIVE Gcd(_, _)
Gcd(a, b) == IF b = 0 THEN a ELSE Gcd(b, a % b)

Pow(b, e) == IF e = 0 THEN 1 ELSE LET RECURSIVE P(_)
                                      P(k) == IF k = 0 THEN 1 ELSE b * P(k - 1)
                                  IN  P(e)

\* the f64 nearest n/d (d # 0), as a fraction in lowest terms
F64(n, d) ==
    LET g == Gcd(Abs(n), Abs(d))
        s == IF d < 0 THEN -1 ELSE 1
    IN  [num |-> s * (n \div g), den |-> s * (d \div g)]

NaN == [num |-> 0, den |-> 0]
Infinity(s) == [num |-> s, den |-> 0]
Zero == [num |-> 0, den |-> 1]

is_nan(x) == x.den = 0 /\ x.num = 0
is_infinite(x) == x.den = 0 /\ x.num # 0

f64_add(x, y) ==
    IF is_nan(x) \/ is_nan(y) THEN NaN
    ELSE IF is_infinite(x) THEN (IF is_infinite(y) /\ y.num # x.num THEN NaN ELSE x)
    ELSE IF is_infinite(y) THEN y
    ELSE F64(x.num * y.den + y.num * x.den, x.den * y.den)

f64_neg(x) == [num |-> -x.num, den |-> x.den]

f64_sub(x, y) == f64_add(x, f64_neg(y))

f64_mul(x, y) ==
    IF is_nan(x) \/ is_nan(y) THEN NaN
    ELSE IF is_infinite(x) \/ is_infinite(y)
         THEN (IF x.num = 0 \/ y.num = 0 THEN NaN ELSE Infinity(Sgn(x.num) * Sgn(y.num)))
    ELSE F64(x.num * y.num, x.den * y.den)

f64_div(x, y) ==
    IF is_nan(x) \/ is_nan(y) THEN NaN
    ELSE IF is_infinite(x)
         THEN (IF is_infinite(y) THEN NaN
               ELSE Infinity(Sgn(x.num) * (IF y.num < 0 THEN -1 ELSE 1)))
    ELSE IF is_infinite(y) THEN Zero
    ELSE IF y.num = 0 THEN (IF x.num = 0 THEN NaN ELSE Infinity(Sgn(x.num)))
    ELSE F64(x.num * y.den, x.den * y.num)

\* the integer part of a finite x, rounded toward zero
f64_trunc(x) == Sgn(x.num) * (Abs(x.num) \div x.den)

\* the remainder of the truncated division (the sign of the dividend)
f64_rem(x, y) ==
    IF is_nan(x) \/ is_nan(y) \/ is_infinite(x) \/ (~is_infinite(y) /\ y.num = 0) THEN NaN
    ELSE IF is_infinite(y) THEN x
    ELSE LET q == f64_trunc(F64(x.num * y.den, x.den * y.num))
         IN  f64_sub(x, f64_mul(y, F64(q, 1)))

f64_eq(x, y) == ~is_nan(x) /\ ~is_nan(y) /\ x = y

f64_lt(x, y) ==
    /\ ~is_nan(x) /\ ~is_nan(y) /\ x # y
    /\ IF is_infinite(x) THEN x.num < 0
       ELSE IF is_infinite(y) THEN y.num > 0
       ELSE x.num * y.den < y.num * x.den

I32_MAX == 2147483647
I32_MIN == -I32_MAX - 1

\* `as i32`: truncation toward zero, saturating, NaN to 0
f64_as_i32(x) ==
    IF is_nan(x) THEN 0
    ELSE IF is_infinite(x) THEN (IF x.num > 0 THEN I32_MAX ELSE I32_MIN)
    ELSE f64_trunc(x)

\* two i32 combined bit by bit by f, in two's complement: the low bit of x is
\* x % 2, the bits above it are those of x \div 2, and the last bit is the sign
BitOf(f, p, q) ==
    IF f = "&" THEN (IF p = 1 /\ q = 1 THEN 1 ELSE 0)
    ELSE (IF p = 1 \/ q = 1 THEN 1 ELSE 0)

RECURSIVE i32_bits(_, _, _, _)
i32_bits(x, y, f, k) ==
    IF k = 1 THEN -BitOf(f, x % 2, y % 2)
    ELSE BitOf(f, x % 2, y % 2) + 2 * i32_bits(x \div 2, y \div 2, f, k - 1)

i32_bitop(a, b, f) == i32_bits(a, b, f, 32)

----------------------------------------------------------------------------
(* characters *)

\* Option<char>::None
NoChar == ""

Digits == <<"0", "1", "2", "3", "4", "5", "6", "7", "8", "9">>

is_ascii_digit(c) == \E i \in 1..10 : Digits[i] = c

DigitVal(c) == (CHOOSE i \in 1..10 : Digits[i] = c) - 1

is_part_of_number(c) == is_ascii_digit(c) \/ c = "."

is_space(c) == c = " " \/ c = "\t"

is_whitespace(c) == c \in {" ", "\t", "\n", "\r", "\f"}

\* str::parse::<f64> on a first character followed by digits and dots:
\* an optional sign, then digits with at most one dot and at least one digit
parse_f64(chars) ==
    LET signed == Len(chars) > 0 /\ chars[1] \in {"+", "-"}
        body == IF signed THEN SubSeq(chars, 2, Len(chars)) ELSE chars
        dots == {i \in 1..Len(body) : body[i] = "."}
        digs == {i \in 1..Len(body) : is_ascii_digit(body[i])}
        wellformed == /\ Cardinality(dots) <= 1
                      /\ Cardinality(digs) >= 1
                      /\ dots \cup digs = 1..Len(body)
        RECURSIVE Mantissa(_)
        Mantissa(k) ==
            IF k = 0 THEN 0
            ELSE IF body[k] = "." THEN Mantissa(k - 1)
            ELSE 10 * Mantissa(k - 1) + DigitVal(body[k])
        scale == IF dots = {} THEN 0 ELSE Len(body) - (CHOOSE i \in dots : TRUE)
        m == Mantissa(Len(body))
    IN  IF ~wellformed THEN [ok |-> FALSE]
        ELSE [ok |-> TRUE,
              v |-> F64(IF signed /\ chars[1] = "-" THEN -m ELSE m, Pow(10, scale))]

----------------------------------------------------------------------------
(* tokens *)

NoToken == [t |-> "None"]
TIdentifier(s) == [t |-> "Identifier", name |-> s]
TNumber(n) == [t |-> "Number", n |-> n]
TString(s) == [t |-> "String", str |-> s]
LParen == [t |-> "LParen"]
RParen == [t |-> "RParen"]
LBrace == [t |-> "LBrace"]
RBrace == [t |-> "RBrace"]
TOperator(o) == [t |-> "Operator", op |-> o]
TReserved(r) == [t |-> "Reserved", kw |-> r]
NewLine == [t |-> "NewLine"]

\* impl From<&str> for Operator
OperatorFrom(s) ==
    CASE s = <<"+">> -> "Plus"
      [] s = <<"-">> -> "Minus"
      [] s = <<"*">> -> "Mul"
      [] s = <<"/">> -> "Div"
      [] s = <<"%">> -> "Mod"
      [] s = <<"=", "=">> -> "Equal"
      [] s = <<"=", "=", "=">> -> "ObjectEqual"
      [] s = <<"!", "=">> -> "NotEqual"
      [] s = <<">">> -> "GreaterThan"
      [] s = <<">", "=">> -> "GreaterThanEqual"
      [] s = <<"<">> -> "LessThan"
      [] s = <<"<", "=">> -> "LessThanEqual"
      [] s = <<"&", "&">> -> "LogicalAnd"
      [] s = <<"|", "|">> -> "LogicalOr"
      [] s = <<"!">> -> "Not"
      [] s = <<"&">> -> "BitAnd"
      [] s = <<"|">> -> "BitOr"
      [] s = <<"=">> -> "Assign"
      [] s = <<"+", "=">> -> "AddAssign"
      [] s = <<"-", "=">> -> "SubAssign"
      [] s = <<"*", "=">> -> "MulAssign"
      [] s = <<"/", "=">> -> "DivAssign"
      [] s = <<"%", "=">> -> "ModAssign"

----------------------------------------------------------------------------
(* Lexer: [tokens, position, current] *)

get(tokens, i) == IF i < Len(tokens) THEN tokens[i + 1] ELSE NoChar

Lexer_new(chars) == [tokens |-> chars, position |-> 0, current |-> get(chars, 0)]

Lexer_next(l) ==
    [l EXCEPT !.position = l.position + 1,
              !.current = get(l.tokens, l.position + 1)]

Lexer_peek(l) == get(l.tokens, l.position + 1)

RECURSIVE skip_whitespace(_)
skip_whitespace(l) ==
    IF l.current # NoChar /\ is_space(l.current)
    THEN skip_whitespace(Lexer_next(l))
    ELSE l

\* every recognizer returns the lexer it leaves and the Option<Token>: [l, tok]

new_line(l) ==
    [l |-> l, tok |-> IF l.current = "\n" THEN NewLine ELSE NoToken]

check_string(l, s) ==
    IF \A i \in 1..Len(s) : get(l.tokens, l.position + (i - 1)) = s[i]
    THEN [l |-> [l EXCEPT !.position = l.position + (Len(s) - 1)], ok |-> TRUE]
    ELSE [l |-> l, ok |-> FALSE]

check_string_with_space(l, s) == check_string(l, s \o <<" ">>)

\* .then_some(Token::Reserved(kw)) on the result of a check
then_some(c, tok) == [l |-> c.l, tok |-> IF c.ok THEN tok ELSE NoToken]

reserved_word(l, s, kw, spaced) ==
    then_some(IF spaced THEN check_string_with_space(l, s) ELSE check_string(l, s),
              TReserved(kw))

\* .or_else(|| self.check_string_with_space("fn").then_some(..))
or_fn(r_for) ==
    IF r_for.tok # NoToken THEN r_for
    ELSE reserved_word(r_for.l, <<"f", "n">>, "Fn", TRUE)

reserved(l) ==
    CASE l.current = "p" -> reserved_word(l, <<"p", "r", "i", "n", "t">>, "Print", TRUE)
      [] l.current = "r" -> reserved_word(l, <<"r", "e", "t", "u", "r", "n">>, "Return", TRUE)
      [] l.current = "i" -> reserved_word(l, <<"i", "f">>, "If", TRUE)
      [] l.current = "e" -> reserved_word(l, <<"e", "l", "s", "e">>, "Else", FALSE)
      [] l.current = "f" ->
            or_fn(reserved_word(l, <<"f", "o", "r">>, "For", TRUE))
      [] l.current = "t" -> reserved_word(l, <<"t", "y", "p", "e", "o", "f">>, "Typeof", TRUE)
      [] OTHER -> [l |-> l, tok |-> NoToken]

RECURSIVE number_run(_, _)
number_run(l, number_chars) ==
    IF Lexer_peek(l) # NoChar /\ is_part_of_number(Lexer_peek(l))
    THEN number_run(Lexer_next(l), Append(number_chars, Lexer_peek(l)))
    ELSE [l |-> l, chars |-> number_chars]

\* .ok().map(Token::Number)
map_number(parsed) == IF parsed.ok THEN TNumber(parsed.v) ELSE NoToken

\* number once the run of characters is read: the cursor stays at its end
number_of(scanned) == [l |-> scanned.l, tok |-> map_number(parse_f64(scanned.chars))]

number(l) ==
    IF l.current = NoChar THEN [l |-> l, tok |-> NoToken]
    ELSE number_of(number_run(l, <<l.current>>))

paren(l) ==
    [l |-> l,
     tok |-> CASE l.current = "(" -> LParen
               [] l.current = ")" -> RParen
               [] l.current = "{" -> LBrace
               [] l.current = "}" -> RBrace
               [] OTHER -> NoToken]

RECURSIVE tokenize_operator(_, _)
tokenize_operator(l, candidates) ==
    IF candidates = <<>> THEN [l |-> l, tok |-> NoToken]
    ELSE IF check_string(l, Head(candidates)).ok
    THEN then_some(check_string(l, Head(candidates)),
                   TOperator(OperatorFrom(Head(candidates))))
    ELSE tokenize_operator(l, Tail(candidates))

operator(l) ==
    CASE l.current = "+" -> tokenize_operator(l, << <<"+", "=">>, <<"+">> >>)
      [] l.current = "-" -> tokenize_operator(l, << <<"-", "=">>, <<"-">> >>)
      [] l.current = "*" -> tokenize_operator(l, << <<"*", "=">>, <<"*">> >>)
      [] l.current = "/" -> tokenize_operator(l, << <<"/", "=">>, <<"/">> >>)
      [] l.current = "%" -> tokenize_operator(l, << <<"%", "=">>, <<"%">> >>)
      [] l.current = "=" -> tokenize_operator(l, << <<"=", "=", "=">>, <<"=", "=">>, <<"=">> >>)
      [] l.current = ">" -> tokenize_operator(l, << <<">", "=">>, <<">">> >>)
      [] l.current = "<" -> tokenize_operator(l, << <<"<", "=">>, <<"<">> >>)
      [] l.current = "&" -> tokenize_operator(l, << <<"&", "&">>, <<"&">> >>)
      [] l.current = "|" -> tokenize_operator(l, << <<"|", "|">>, <<"|">> >>)
      [] l.current = "!" -> tokenize_operator(l, << <<"!", "=">>, <<"!">> >>)
      [] OTHER -> [l |-> l, tok |-> NoToken]

RECURSIVE identifier_run(_, _)
identifier_run(l, identifier_chars) ==
    IF Lexer_peek(l) # NoChar /\ ~is_whitespace(Lexer_peek(l))
    THEN identifier_run(Lexer_next(l), Append(identifier_chars, Lexer_peek(l)))
    ELSE [l |-> l, chars |-> identifier_chars]

identifier_of(scanned) == [l |-> scanned.l, tok |-> TIdentifier(scanned.chars)]

identifier(l) ==
    IF l.current = NoChar THEN [l |-> l, tok |-> NoToken]
    ELSE identifier_of(identifier_run(l, <<l.current>>))

RECURSIVE string_run(_, _)
string_run(l, string_chars) ==
    IF Lexer_peek(l) # NoChar /\ Lexer_peek(l) # "\""
    THEN string_run(Lexer_next(l), Append(string_chars, Lexer_peek(l)))
    ELSE [l |-> l, chars |-> string_chars]

\* self.next() steps onto the closing quote
string_of(scanned) == [l |-> Lexer_next(scanned.l), tok |-> TString(scanned.chars)]

string_literal(l) ==
    IF l.current # "\"" THEN [l |-> l, tok |-> NoToken]
    ELSE string_of(string_run(l, <<>>))

\* the recognizers in the order of Lexer::token; each sees the lexer the
\* one before it left
or_new_line(r) == IF r.tok # NoToken THEN r ELSE new_line(r.l)
or_paren(r) == IF r.tok # NoToken THEN r ELSE paren(r.l)
or_reserved(r) == IF r.tok # NoToken THEN r ELSE reserved(r.l)
or_operator(r) == IF r.tok # NoToken THEN r ELSE operator(r.l)
or_string_literal(r) == IF r.tok # NoToken THEN r ELSE string_literal(r.l)
or_identifier(r) == IF r.tok # NoToken THEN r ELSE identifier(r.l)

\* self.next(); token
token_of(r) == [l |-> Lexer_next(r.l), tok |-> r.tok]

token(l) ==
    token_of(or_identifier(or_string_literal(or_operator(or_reserved(or_paren(
                 or_new_line(number(skip_whitespace(l)))))))))

----------------------------------------------------------------------------
(* the syntax tree *)

\* Option<Box<Expr>>::None, Option<Box<Statement>>::None, Option<Vec<_>>
NoExpr == [e |-> "None"]
NoStatement == [s |-> "None"]
None == [some |-> FALSE]
Some(v) == [some |-> TRUE, v |-> v]

Expr_Identifier(name) == [e |-> "Identifier", name |-> name]
Expr_Number(n) == [e |-> "Number", n |-> n]
\* ReferenceType { value: Rc<String> }: rc names the allocation, str its content
Expr_String(rc, str) == [e |-> "String", value |-> [rc |-> rc, str |-> str]]
Expr_PrefixExpr(op, right) ==
    [e |-> "PrefixExpr", operator |-> op, right |-> right]
Expr_InfixExpr(left, op, right) ==
    [e |-> "InfixExpr", left |-> left, operator |-> op, right |-> right]

Statement_Return(expr) == [s |-> "Return", expr |-> expr]
Statement_Print(expr) == [s |-> "Print", expr |-> expr]
Statement_Expr(expr) == [s |-> "Expr", expr |-> expr]
Statement_Block(statements) == [s |-> "Block", statements |-> statements]
Statement_If(condition, block, else_block) ==
    [s |-> "If", condition |-> condition, block |-> block, else_block |-> else_block]

\* enum Precedence, in the order of its declaration (derive(PartialOrd))
Precedences ==
    <<"Lowest", "Assign", "LogicalOr", "LogicalAnd", "BitOr", "BitAnd",
      "Equality", "Compare", "Sum", "Product", "Prefix", "Postfix">>

PrecedenceRank(name) == CHOOSE i \in 1..Len(Precedences) : Precedences[i] = name

Precedence_lt(a, b) == PrecedenceRank(a) < PrecedenceRank(b)

\* impl From<&Token> for Precedence
Precedence_from(value) ==
    IF value.t # "Operator" THEN "Lowest"
    ELSE CASE value.op \in {"Assign", "AddAssign", "SubAssign", "MulAssign",
                            "DivAssign", "ModAssign"} -> "Assign"
           [] value.op = "BitOr" -> "BitOr"
           [] value.op = "BitAnd" -> "BitAnd"
           [] value.op = "LogicalOr" -> "LogicalOr"
           [] value.op = "LogicalAnd" -> "LogicalAnd"
           [] value.op \in {"Equal", "NotEqual"} -> "Equality"
           [] value.op \in {"GreaterThan", "GreaterThanEqual", "LessThan",
                            "LessThanEqual", "ObjectEqual"} -> "Compare"
           [] value.op \in {"Plus", "Minus"} -> "Sum"
           [] value.op \in {"Div", "Mul", "Mod"} -> "Product"
           [] value.op = "Not" -> "Prefix"

----------------------------------------------------------------------------
(* Parser: [lexer, current, peek], and rc, the allocations made before it *)
(* every parse_ operator returns the parser it leaves and its result:      *)
(* [p, r]                                                                  *)

Parser_of(first, second, rc) ==
    [lexer |-> second.l, current |-> first.tok, peek |-> second.tok, rc |-> rc]

Parser_peeked(first, rc) == Parser_of(first, token(first.l), rc)

Parser_new(lexer, rc) == Parser_peeked(token(lexer), rc)

\* a next that keeps the tokens and the lexer it has
shift_stale(p, t) == p

\* self.current = self.peek.clone(); self.peek = t
shift(p, t) == [p EXCEPT !.current = p.peek, !.peek = t.tok, !.lexer = t.l]

Parser_next(p) == shift(p, token(p.lexer))

peeking_precedence(p) ==
    IF p.peek = NoToken THEN "Lowest" ELSE Precedence_from(p.peek)

is_peek(p, tok) == IF p.peek = NoToken THEN FALSE ELSE p.peek = tok

peeking_eof(p) == p.peek = NoToken

RECURSIVE skip_newline_eof(_)

\* if self.current.is_none() { break; }
skip_again(p) == IF p.current = NoToken THEN p ELSE skip_newline_eof(p)

skip_newline_eof(p) ==
    IF is_peek(p, NewLine) \/ peeking_eof(p) THEN skip_again(Parser_next(p)) ELSE p

RECURSIVE parse_expr(_, _)
RECURSIVE parse_expr_loop(_, _, _)
RECURSIVE parse_statement(_)
RECURSIVE parse_block_loop(_, _)
RECURSIVE parse_loop(_, _)

\* Each parse_ operator hands the result of the call it makes to the
\* operator that models the rest of its body.

parse_number(p) ==
    [p |-> p, r |-> IF p.current.t = "Number" THEN Expr_Number(p.current.n) ELSE NoExpr]

\* s.clone().into() allocates a new Rc<String>
parse_string(p) ==
    IF p.current.t = "String"
    THEN [p |-> [p EXCEPT !.rc = p.rc + 1], r |-> Expr_String(p.rc + 1, p.current.str)]
    ELSE [p |-> p, r |-> NoExpr]

\* parse_grouped_expr once the expression is parsed
grouped_close(expression) ==
    IF is_peek(expression.p, RParen)
    THEN [p |-> Parser_next(expression.p), r |-> expression.r]
    ELSE [p |-> expression.p, r |-> NoExpr]

parse_grouped_expr(p) == grouped_close(parse_expr(Parser_next(p), "Lowest"))

\* parse_prefix_expr once the operand is parsed
prefix_of(op, number_) ==
    [p |-> number_.p,
     r |-> IF op \in {"Plus", "Minus", "Not"} /\ number_.r # NoExpr
           THEN Expr_PrefixExpr(op, number_.r) ELSE NoExpr]

parse_prefix_expr(p) ==
    IF p.current.t # "Operator" THEN [p |-> p, r |-> NoExpr]
    ELSE prefix_of(p.current.op, parse_expr(Parser_next(p), "Prefix"))

parse_prefix(p) ==
    CASE p.current = NoToken -> [p |-> p, r |-> NoExpr]
      [] p.current.t = "Operator" /\ p.current.op \in {"Plus", "Minus", "Not"} ->
            parse_prefix_expr(p)
      [] p.current.t = "Identifier" -> [p |-> p, r |-> Expr_Identifier(p.current.name)]
      [] p.current.t = "Number" -> parse_number(p)
      [] p.current.t = "String" -> parse_string(p)
      [] p.current = LParen -> parse_grouped_expr(p)
      [] OTHER -> [p |-> p, r |-> NoExpr]

\* matches no operator.  Operator::from(token) panics on a token that is no
\* operator; parse_expr calls this only after a peeked precedence above
\* Lowest, which only an operator has.
parse_postfix(p, left) == [p |-> p, r |-> NoExpr]

\* parse_infix_expr once the right operand is parsed
infix_of(left, op, right) ==
    [p |-> right.p,
     r |-> IF right.r = NoExpr THEN NoExpr ELSE Expr_InfixExpr(left, op, right.r)]

parse_infix_expr(p, left) ==
    IF p.current = NoToken THEN [p |-> p, r |-> NoExpr]
    ELSE infix_of(left, p.current.op,
                  parse_expr(Parser_next(p), Precedence_from(p.current)))

parse_infix(p, left) ==
    CASE p.current = NoToken -> [p |-> p, r |-> NoExpr]
      [] p.current.t # "Operator" -> [p |-> p, r |-> left]
      [] p.current.op \in
            {"Plus", "Minus", "Mul", "Div", "Mod", "Equal", "NotEqual",
             "GreaterThan", "GreaterThanEqual", "LessThan", "LessThanEqual",
             "ObjectEqual", "LogicalAnd", "LogicalOr", "Assign", "AddAssign",
             "SubAssign", "MulAssign", "DivAssign", "ModAssign", "BitAnd",
             "BitOr"} -> parse_infix_expr(p, left)
      [] OTHER -> [p |-> p, r |-> left]

\* the condition of the while loop of parse_expr
continues(precedence, p) == Precedence_lt(precedence, peeking_precedence(p))

\* self.parse_postfix(left.clone()).or_else(|| self.parse_infix(left))
postfix_or_infix(postfix, left) ==
    IF postfix.r # NoExpr THEN postfix ELSE parse_infix(postfix.p, left)

\* left = ...?; and the next turn of the loop
loop_again(precedence, left) ==
    IF left.r = NoExpr THEN left ELSE parse_expr_loop(left.p, precedence, left.r)

parse_expr_loop(p, precedence, left) ==
    IF continues(precedence, p)
    THEN loop_again(precedence,
                    postfix_or_infix(parse_postfix(Parser_next(p), left), left))
    ELSE [p |-> p, r |-> left]

\* parse_expr once the prefix term is parsed
after_prefix(left, precedence) ==
    IF left.r = NoExpr THEN left ELSE parse_expr_loop(left.p, precedence, left.r)

parse_expr(p, precedence) == after_prefix(parse_prefix(p), precedence)

\* the test that ends a print statement
print_terminated(p) ==
    is_peek(p, NewLine) \/ peeking_eof(p) \/ is_peek(p, RBrace)

\* parse_print_statement once the expression is parsed
print_of(expression) ==
    [p |-> expression.p,
     r |-> IF print_terminated(expression.p) /\ expression.r # NoExpr
           THEN Statement_Print(expression.r) ELSE NoStatement]

parse_print_statement(p) ==
    IF p.current # TReserved("Print") THEN [p |-> p, r |-> NoStatement]
    ELSE print_of(parse_expr(Parser_next(p), "Lowest"))

\* parse_return_statement once the expression is parsed
return_of(expression) ==
    [p |-> expression.p,
     r |-> IF (is_peek(expression.p, NewLine) \/ peeking_eof(expression.p))
              /\ expression.r # NoExpr
           THEN Statement_Return(expression.r) ELSE NoStatement]

parse_return_statement(p) ==
    IF p.current # TReserved("Return") THEN [p |-> p, r |-> NoStatement]
    ELSE return_of(parse_expr(Parser_next(p), "Lowest"))

\* let statement = self.parse_statement()?; and the rest of the loop body
block_again(statement, statements) ==
    IF statement.r = NoStatement THEN statement
    ELSE parse_block_loop(Parser_next(skip_newline_eof(statement.p)),
                          Append(statements, statement.r))

parse_block_loop(p, statements) ==
    IF p.current = NoToken THEN [p |-> p, r |-> NoStatement]
    ELSE IF p.current # RBrace /\ ~is_peek(p, RBrace) /\ ~peeking_eof(p)
    THEN block_again(parse_statement(p), statements)
    ELSE [p |-> p, r |-> Statement_Block(statements)]

parse_block(p) ==
    IF p.current = NoToken \/ p.current # LBrace THEN [p |-> p, r |-> NoStatement]
    ELSE parse_block_loop(Parser_next(skip_newline_eof(p)), <<>>)

\* the parser parse_if_statement hands to parse_block for the else block
else_entry(p) == Parser_next(p)

\* Some(Box::new(Statement::If { condition: condition?, block, else_block }))
if_of(condition, block, else_block) ==
    [p |-> else_block.p,
     r |-> IF condition.r = NoExpr THEN NoStatement
           ELSE Statement_If(condition.r, block.r, else_block.r)]

\* parse_if_statement once the block is parsed
if_else(condition, block) ==
    IF block.r = NoStatement THEN block
    ELSE if_of(condition, block,
               IF is_peek(block.p, TReserved("Else"))
               THEN parse_block(else_entry(block.p))
               ELSE [p |-> block.p, r |-> NoStatement])

\* parse_if_statement once the condition is parsed
if_block(condition) == if_else(condition, parse_block(Parser_next(condition.p)))

parse_if_statement(p) ==
    IF p.current # TReserved("If") THEN [p |-> p, r |-> NoStatement]
    ELSE if_block(parse_expr(Parser_next(p), "Lowest"))

\* .map(|expr| Box::new(Statement::Expr(expr)))
expr_statement(expr) ==
    [p |-> expr.p, r |-> IF expr.r = NoExpr THEN NoStatement ELSE Statement_Expr(expr.r)]

parse_statement(p) ==
    CASE p.current = NoToken -> [p |-> p, r |-> NoStatement]
      [] p.current = TReserved("Print") -> parse_print_statement(p)
      [] p.current = TReserved("Return") -> parse_return_statement(p)
      [] p.current = TReserved("If") -> parse_if_statement(p)
      [] OTHER -> expr_statement(parse_expr(p, "Lowest"))

\* let statement = self.parse_statement()?; and the rest of the loop body
parse_again(statement, statements) ==
    IF statement.r = NoStatement THEN [p |-> statement.p, r |-> None]
    ELSE parse_loop(Parser_next(skip_newline_eof(statement.p)),
                    Append(statements, statement.r))

parse_loop(p, statements) ==
    IF p.current # NoToken THEN parse_again(parse_statement(p), statements)
    ELSE [p |-> p, r |-> Some(statements)]

parse(p) == parse_loop(p, <<>>)

----------------------------------------------------------------------------
(* Primitive *)

Primitive_Number(n) == [p |-> "Number", n |-> n]
Primitive_Boolean(b) == [p |-> "Boolean", b |-> b]
\* Primitive::String(Rc<String>): rc names the allocation, str its content
Primitive_String(value) == [p |-> "String", value |-> value]
\* no value: the call panicked or the process exited
NoValue == [p |-> "None"]

\* the order of the variants in the enum (derive(PartialOrd))
Variants == <<"Number", "Boolean", "String">>
VariantRank(v) == CHOOSE i \in 1..Len(Variants) : Variants[i] = v.p

\* the characters of the model in the order of their code points
Ascii ==
    <<"\t", "\n", "\f", "\r", " ", "!", "\"", "#", "$", "%", "&", "'", "(", ")",
      "*", "+", ",", "-", ".", "/", "0", "1", "2", "3", "4", "5", "6", "7", "8",
      "9", ":", ";", "<", "=", ">", "?", "@", "A", "B", "C", "D", "E", "F", "G",
      "H", "I", "J", "K", "L", "M", "N", "O", "P", "Q", "R", "S", "T", "U", "V",
      "W", "X", "Y", "Z", "[", "\\", "]", "^", "_", "a", "b", "c", "d", "e",
      "f", "g", "h", "i", "j", "k", "l", "m", "n", "o", "p", "q", "r", "s", "t",
      "u", "v", "w", "x", "y", "z", "{", "|", "}", "~">>

CharCode(c) == CHOOSE i \in 1..Len(Ascii) : Ascii[i] = c

RECURSIVE str_cmp(_, _)
str_cmp(a, b) ==
    IF a = <<>> /\ b = <<>> THEN "Equal"
    ELSE IF a = <<>> THEN "Less"
    ELSE IF b = <<>> THEN "Greater"
    ELSE IF Head(a) = Head(b) THEN str_cmp(Tail(a), Tail(b))
    ELSE IF CharCode(Head(a)) < CharCode(Head(b)) THEN "Less" ELSE "Greater"

\* derive(PartialEq): the same variant and equal payloads; an Rc<String> is
\* equal to another by content
\* two shared strings are equal when their contents are
String_eq(l, r) == l.str = r.str

Primitive_eq(l, r) ==
    /\ l.p = r.p
    /\ CASE l.p = "Number" -> f64_eq(l.n, r.n)
         [] l.p = "Boolean" -> l.b = r.b
         [] l.p = "String" -> String_eq(l.value, r.value)

\* derive(PartialOrd): Option<Ordering>, the variants first, then the payloads
Primitive_partial_cmp(l, r) ==
    IF l.p # r.p
    THEN (IF VariantRank(l) < VariantRank(r) THEN "Less" ELSE "Greater")
    ELSE CASE l.p = "Number" ->
                (IF f64_eq(l.n, r.n) THEN "Equal"
                 ELSE IF f64_lt(l.n, r.n) THEN "Less"
                 ELSE IF f64_lt(r.n, l.n) THEN "Greater"
                 ELSE "None")
           [] l.p = "Boolean" ->
                (IF l.b = r.b THEN "Equal" ELSE IF r.b THEN "Less" ELSE "Greater")
           [] l.p = "String" -> str_cmp(l.value.str, r.value.str)

\* the decimal digits of a natural number
RECURSIVE fmt_nat(_)
fmt_nat(k) ==
    IF k < 10 THEN <<Digits[k + 1]>> ELSE Append(fmt_nat(k \div 10), Digits[(k % 10) + 1])

\* the digits after the point of rem/den, at most left of them
RECURSIVE fmt_frac(_, _, _)
fmt_frac(rem, den, left) ==
    IF rem = 0 \/ left = 0 THEN <<>>
    ELSE <<Digits[((rem * 10) \div den) + 1]>> \o fmt_frac((rem * 10) % den, den, left - 1)

FracDigits == 16

\* Display for f64; a fraction that does not end is cut after FracDigits digits
fmt_f64(x) ==
    IF is_nan(x) THEN <<"N", "a", "N">>
    ELSE IF is_infinite(x)
         THEN (IF x.num > 0 THEN <<"i", "n", "f">> ELSE <<"-", "i", "n", "f">>)
    ELSE LET whole == Abs(x.num) \div x.den
             rem == Abs(x.num) % x.den
         IN  (IF x.num < 0 THEN <<"-">> ELSE <<>>) \o fmt_nat(whole)
             \o (IF rem = 0 THEN <<>> ELSE <<".">> \o fmt_frac(rem, x.den, FracDigits))

\* impl Display for Primitive
Primitive_fmt(v) ==
    CASE v.p = "Number" -> fmt_f64(v.n)
      [] v.p = "Boolean" -> (IF v.b THEN <<"t", "r", "u", "e">>
                             ELSE <<"f", "a", "l", "s", "e">>)
      [] v.p = "String" -> v.value.str

\* the operator impls of types.rs return the value, or NoValue for
\* panic!("invalid type")
BothNumbers(l, r) == l.p = "Number" /\ r.p = "Number"

Primitive_add(l, r) ==
    IF BothNumbers(l, r) THEN Primitive_Number(f64_add(l.n, r.n)) ELSE NoValue

Primitive_sub(l, r) ==
    IF BothNumbers(l, r) THEN Primitive_Number(f64_sub(l.n, r.n)) ELSE NoValue

Primitive_mul(l, r) ==
    IF BothNumbers(l, r) THEN Primitive_Number(f64_mul(l.n, r.n)) ELSE NoValue

Primitive_div(l, r) ==
    IF BothNumbers(l, r) THEN Primitive_Number(f64_div(l.n, r.n)) ELSE NoValue

Primitive_rem(l, r) ==
    IF BothNumbers(l, r) THEN Primitive_Number(f64_rem(l.n, r.n)) ELSE NoValue

Primitive_bitand(l, r) ==
    IF BothNumbers(l, r)
    THEN Primitive_Number(F64(i32_bitop(f64_as_i32(l.n), f64_as_i32(r.n), "&"), 1))
    ELSE NoValue

Primitive_bitor(l, r) ==
    IF BothNumbers(l, r)
    THEN Primitive_Number(F64(i32_bitop(f64_as_i32(l.n), f64_as_i32(r.n), "|"), 1))
    ELSE NoValue

logicaland(l, r) ==
    IF l.p = "Boolean" /\ r.p = "Boolean" THEN Primitive_Boolean(l.b /\ r.b) ELSE NoValue

logicalor(l, r) ==
    IF l.p = "Boolean" /\ r.p = "Boolean" THEN Primitive_Boolean(l.b \/ r.b) ELSE NoValue

\* impl From<Primitive> for i32; None stands for panic!("invalid type")
Primitive_into_i32(v) ==
    CASE v.p = "Number" -> Some(f64_as_i32(v.n))
      [] v.p = "Boolean" -> Some(IF v.b THEN 1 ELSE 0)
      [] OTHER -> None

----------------------------------------------------------------------------
(* Interpreter *)
(* The operators below thread m = [interp, stdout, proc]: the interpreter, *)
(* the lines printed and the state of the process.  Each eval_ operator    *)
(* returns [m, r]; r is NoValue when the call panicked.                    *)

Running == [status |-> "running"]
Panicked == [status |-> "panicked"]
Exited(code) == [status |-> "exited", code |-> code]

Context_new == [vars |-> [name \in {} |-> NoValue]]

Interpreter_new == [global_context |-> Context_new, stack |-> <<>>]

panic(m) == [m |-> [m EXCEPT !.proc = Panicked], r |-> NoValue]

vars_of(m) == m.interp.global_context.vars

\* an insert that replaces the map by the one binding
insert_alone(map, name, value) == [k \in {name} |-> value]

\* HashMap::insert
insert(map, name, value) ==
    [k \in DOMAIN map \cup {name} |-> IF k = name THEN value ELSE map[k]]

\* a lookup whose default is Number(1.0)
lookup_unit(map, name) ==
    IF name \in DOMAIN map THEN map[name] ELSE Primitive_Number(F64(1, 1))

\* the binding eval_identifier reads: vars.get(name).unwrap_or(&Number(0.0))
lookup(map, name) ==
    IF name \in DOMAIN map THEN map[name] ELSE Primitive_Number(Zero)

\* a lookup in the manner of entry(name).or_insert(Number(0.0))
eval_identifier_inserting(m, name) ==
    [m |-> [m EXCEPT !.interp.global_context.vars =
                        [k \in DOMAIN vars_of(m) \cup {name} |-> lookup(vars_of(m), k)]],
     r |-> lookup(vars_of(m), name)]

eval_identifier(m, name) == [m |-> m, r |-> lookup(vars_of(m), name)]

\* println!("{:?}", left); the rendering of the expression is not modelled
DebugLine == <<"{", ":", "?", "}">>

\* an assign that checks its target and stores nothing
assign_skipped(m, left, value) ==
    IF left.e = "Identifier" THEN m
    ELSE [m EXCEPT !.stdout = Append(m.stdout, DebugLine), !.proc = Panicked]

assign(m, left, value) ==
    IF left.e = "Identifier"
    THEN [m EXCEPT !.interp.global_context.vars = insert(vars_of(m), left.name, value)]
    ELSE [m EXCEPT !.stdout = Append(m.stdout, DebugLine), !.proc = Panicked]

\* the value an operator of types.rs returned, or its panic
returned(m, v) == IF v = NoValue THEN panic(m) ELSE [m |-> m, r |-> v]

\* assign(left, &(l op r)); l op r
yielded(a, v) == [m |-> a, r |-> IF a.proc = Running THEN v ELSE NoValue]

assigned(m, left, v) ==
    IF v = NoValue THEN panic(m) ELSE yielded(assign(m, left, v), v)

ordering(l, r, accepted) ==
    Primitive_Boolean(Primitive_partial_cmp(l, r) \in accepted)

\* a comparison of the contents for one of the allocations
ptr_eq_content(l, r) == l.str = r.str

\* Rc::ptr_eq
ptr_eq(l, r) == l.rc = r.rc

\* the match of eval_infix_expr on the operator, both operands evaluated
apply_infix(m, left, op, l_val, r_val) ==
    CASE op = "Plus" -> returned(m, Primitive_add(l_val, r_val))
      [] op = "Minus" -> returned(m, Primitive_sub(l_val, r_val))
      [] op = "Mul" -> returned(m, Primitive_mul(l_val, r_val))
      [] op = "Div" -> returned(m, Primitive_div(l_val, r_val))
      [] op = "Mod" -> returned(m, Primitive_rem(l_val, r_val))
      [] op = "Equal" -> [m |-> m, r |-> Primitive_Boolean(Primitive_eq(l_val, r_val))]
      [] op = "ObjectEqual" ->
            IF l_val.p = "String" /\ r_val.p = "String"
            THEN [m |-> m, r |-> Primitive_Boolean(ptr_eq(l_val.value, r_val.value))]
            ELSE panic(m)
      [] op = "NotEqual" -> [m |-> m, r |-> Primitive_Boolean(~Primitive_eq(l_val, r_val))]
      [] op = "GreaterThan" -> [m |-> m, r |-> ordering(l_val, r_val, {"Greater"})]
      [] op = "GreaterThanEqual" ->
            [m |-> m, r |-> ordering(l_val, r_val, {"Greater", "Equal"})]
      [] op = "LessThan" -> [m |-> m, r |-> ordering(l_val, r_val, {"Less"})]
      [] op = "LessThanEqual" -> [m |-> m, r |-> ordering(l_val, r_val, {"Less", "Equal"})]
      [] op = "LogicalAnd" -> returned(m, logicaland(l_val, r_val))
      [] op = "LogicalOr" -> returned(m, logicalor(l_val, r_val))
      [] op = "BitAnd" -> returned(m, Primitive_bitand(l_val, r_val))
      [] op = "BitOr" -> returned(m, Primitive_bitor(l_val, r_val))
      [] op = "Assign" -> assigned(m, left, r_val)
      [] op = "AddAssign" -> assigned(m, left, Primitive_add(l_val, r_val))
      [] op = "SubAssign" -> assigned(m, left, Primitive_sub(l_val, r_val))
      [] op = "MulAssign" -> assigned(m, left, Primitive_mul(l_val, r_val))
      [] op = "DivAssign" -> assigned(m, left, Primitive_div(l_val, r_val))
      [] op = "ModAssign" -> assigned(m, left, Primitive_rem(l_val, r_val))
      [] OTHER -> panic(m)

\* the match of eval_prefix_expr on the operator, the operand evaluated
apply_prefix(m, op, right) ==
    IF right.p = "Number"
    THEN CASE op = "Plus" -> [m |-> m, r |-> Primitive_Number(right.n)]
           [] op = "Minus" -> [m |-> m, r |-> Primitive_Number(f64_neg(right.n))]
           [] op = "Not" -> [m |-> m, r |-> Primitive_Boolean(f64_eq(right.n, Zero))]
           [] OTHER -> panic(m)
    ELSE panic(m)

RECURSIVE eval(_, _)

\* eval_prefix_expr once the operand is evaluated
prefix_value(right, op) ==
    IF right.r = NoValue THEN right ELSE apply_prefix(right.m, op, right.r)

eval_prefix_expr(m, op, right) == prefix_value(eval(m, right), op)

\* eval_infix_expr once both operands are evaluated
infix_value(l_val, r_val, left, op) ==
    IF r_val.r = NoValue THEN r_val
    ELSE apply_infix(r_val.m, left, op, l_val.r, r_val.r)

\* right_operand leaving the right operand of && and || unevaluated when the
\* left one decides
right_operand_lazy(l_val, left, op, right) ==
    IF l_val.r = NoValue THEN l_val
    ELSE IF op = "LogicalAnd" /\ l_val.r = Primitive_Boolean(FALSE) THEN l_val
    ELSE IF op = "LogicalOr" /\ l_val.r = Primitive_Boolean(TRUE) THEN l_val
    ELSE infix_value(l_val, eval(l_val.m, right), left, op)

\* eval_infix_expr once the left operand is evaluated
right_operand(l_val, left, op, right) ==
    IF l_val.r = NoValue THEN l_val
    ELSE infix_value(l_val, eval(l_val.m, right), left, op)

eval_infix_expr(m, left, op, right) == right_operand(eval(m, left), left, op, right)

eval(m, expr) ==
    CASE expr.e = "Identifier" -> eval_identifier(m, expr.name)
      [] expr.e = "Number" -> [m |-> m, r |-> Primitive_Number(expr.n)]
      [] expr.e = "PrefixExpr" -> eval_prefix_expr(m, expr.operator, expr.right)
      [] expr.e = "InfixExpr" -> eval_infix_expr(m, expr.left, expr.operator, expr.right)
      [] expr.e = "String" -> [m |-> m, r |-> Primitive_String(expr.value)]

\* exit(code.into())
exit_with(m, status) ==
    IF status.some THEN [m EXCEPT !.proc = Exited(status.v)]
    ELSE [m EXCEPT !.proc = Panicked]

exit(m, code) == exit_with(m, Primitive_into_i32(code))

println(m, v) == [m EXCEPT !.stdout = Append(m.stdout, Primitive_fmt(v))]

RECURSIVE run(_, _)

run_block(m, statements) ==
    IF statements.s # "Block" THEN [m EXCEPT !.proc = Panicked]
    ELSE run(m, statements.statements)

\* the branch the If statement runs once its condition is evaluated
run_branch(m, condition, block, else_block) ==
    IF condition.p # "Boolean" THEN [m EXCEPT !.proc = Panicked]
    ELSE IF condition.b THEN run_block(m, block)
    ELSE IF else_block # NoStatement THEN run_block(m, else_block)
    ELSE m

\* run_evaluated with a Return arm that evaluates and goes on
run_evaluated_on(statement, v) ==
    IF v.r = NoValue THEN v.m
    ELSE CASE statement.s = "Expr" -> v.m
           [] statement.s = "Print" -> println(v.m, v.r)
           [] statement.s = "Return" -> v.m
           [] statement.s = "If" ->
                run_branch(v.m, v.r, statement.block, statement.else_block)

\* the arm of a statement that evaluates an expression, once it is evaluated
run_evaluated(statement, v) ==
    IF v.r = NoValue THEN v.m
    ELSE CASE statement.s = "Expr" -> v.m
           [] statement.s = "Print" -> println(v.m, v.r)
           [] statement.s = "Return" -> exit(v.m, v.r)
           [] statement.s = "If" ->
                run_branch(v.m, v.r, statement.block, statement.else_block)

\* the body of the for loop of run
run_statement(m, statement) ==
    CASE statement.s = "Block" -> run(m, statement.statements)
      [] statement.s = "If" -> run_evaluated(statement, eval(m, statement.condition))
      [] OTHER -> run_evaluated(statement, eval(m, statement.expr))

run(m, statements) ==
    IF statements = <<>> \/ m.proc # Running THEN m
    ELSE run(run_statement(m, Head(statements)), Tail(statements))

----------------------------------------------------------------------------
(* programs built from the constructors of Statement and Expr *)

One == Expr_Number(F64(1, 1))

ReturnExprs ==
    {Expr_Number(F64(3, 1)), Expr_Number(F64(37, 10)),
     Expr_PrefixExpr("Minus", Expr_Number(F64(25, 10))),
     Expr_InfixExpr(One, "Equal", One),
     Expr_InfixExpr(One, "Equal", Expr_Number(F64(2, 1))),
     Expr_InfixExpr(One, "Div", Expr_Number(Zero)),
     Expr_InfixExpr(Expr_Identifier(<<"x">>), "AddAssign", One)}

PrintOf(k) == Statement_Print(Expr_Number(F64(k, 1)))

\* Return(e) followed by print 7, in a block
ReturnBlock(e) == Statement_Block(<<Statement_Return(e), PrintOf(7)>>)

IfOf(k, block, else_block) ==
    Statement_If(Expr_InfixExpr(One, "Equal", Expr_Number(F64(k, 1))), block, else_block)

\* the statement that holds Return(e): the return itself, or blocks and If
\* statements around it whose conditions lead to it
ReturnNest(shape, e) ==
    CASE shape = "top" -> Statement_Return(e)
      [] shape = "then" -> IfOf(1, ReturnBlock(e), NoStatement)
      [] shape = "then2" ->
            IfOf(1, Statement_Block(<<IfOf(1, ReturnBlock(e), NoStatement), PrintOf(7)>>),
                 NoStatement)
      [] shape = "else" -> IfOf(2, Statement_Block(<<PrintOf(7)>>), ReturnBlock(e))
      [] shape = "block" -> Statement_Block(<<ReturnBlock(e), PrintOf(7)>>)
      [] shape = "else2" ->
            IfOf(2, Statement_Block(<<>>),
                 Statement_Block(<<Statement_Block(<<IfOf(2, Statement_Block(<<>>),
                                                         ReturnBlock(e))>>),
                                   PrintOf(7)>>))

ReturnShapes == {"top", "then", "then2", "else", "block", "else2"}

\* print 1, the statement that holds Return(e), print 8, y = 5
ReturnProgram(shape, e) ==
    <<PrintOf(1), ReturnNest(shape, e), PrintOf(8),
      Statement_Expr(Expr_InfixExpr(Expr_Identifier(<<"y">>), "Assign",
                                    Expr_Number(F64(5, 1))))>>

Programs == {ReturnProgram(shape, e) : shape \in ReturnShapes, e \in ReturnExprs}

----------------------------------------------------------------------------
(* source texts *)

RECURSIVE Join(_, _)
Join(parts, sep) ==
    IF parts = <<>> THEN <<>>
    ELSE IF Len(parts) = 1 THEN parts[1]
    ELSE parts[1] \o sep \o Join(Tail(parts), sep)

\* words separated by one space; lines separated by one newline
Words(ws) == Join(ws, <<" ">>)
Lines(ls) == Join(ls, <<"\n">>)

kw_print == <<"p", "r", "i", "n", "t">>
kw_if == <<"i", "f">>
kw_else == <<"e", "l", "s", "e">>
kw_return == <<"r", "e", "t", "u", "r", "n">>

\* the spellings of the binary operators that do not assign
BinaryOperatorWords ==
    {<<"+">>, <<"-">>, <<"*">>, <<"/">>, <<"%">>, <<"=", "=">>, <<"=", "=", "=">>,
     <<"!", "=">>, <<">">>, <<">", "=">>, <<"<">>, <<"<", "=">>, <<"&", "&">>,
     <<"|", "|">>, <<"&">>, <<"|">>}

\* the spellings of the compound assignment operators
CompoundWords == {<<"+", "=">>, <<"-", "=">>, <<"*", "=">>, <<"/", "=">>, <<"%", "=">>}

\* operands: numerals and identifiers
FirstOperands == {<<"1">>, <<"x">>, <<"x", "1">>}
SecondOperands == {<<"2">>, <<"y">>}
ThirdOperands == {<<"3">>, <<"x">>}
OperandWords == FirstOperands \cup SecondOperands \cup ThirdOperands

\* a op1 b op2 c
TripleTexts ==
    {Words(<<a, op1, b, op2, c>>) :
        a \in FirstOperands, op1 \in BinaryOperatorWords, b \in SecondOperands,
        op2 \in BinaryOperatorWords, c \in ThirdOperands}

\* ( a op1 b ) op2 c, each parenthesis set off by the separator given for it
Grouped(a, op1, b, op2, c, open, close) ==
    <<"(">> \o open \o Words(<<a, op1, b>>) \o close \o <<")", " ">> \o Words(<<op2, c>>)

GroupOperatorWords == {<<"+">>, <<"-">>, <<"*">>, <<"=", "=">>}
Separators == {<<>>, <<" ">>}

GroupedTexts ==
    {Grouped(a, op1, b, op2, c, open, close) :
        a \in FirstOperands, op1 \in GroupOperatorWords, b \in SecondOperands,
        op2 \in GroupOperatorWords, c \in ThirdOperands,
        open \in Separators, close \in Separators}

\* a ( that nothing closes, followed directly by a space, a digit or a letter
Unclosed(prefix, open, a, rest) == prefix \o <<"(">> \o open \o a \o rest

UnclosedTexts ==
    {Unclosed(prefix, open, a, rest) :
        prefix \in {<<>>, <<"3", " ", "*", " ">>},
        open \in Separators,
        a \in FirstOperands,
        rest \in {<<>>, <<" ", "+", " ", "2">>, <<" ", "+", " ", "2", "\n", "y">>}}

\* print e t: t is a token that neither ends the statement nor continues e
StrayWords ==
    {<<"2">>, <<"x">>, <<"\"", "s", "\"">>, <<"(">>, <<")">>, <<"{">>, <<"e", "l", "s", "e">>, <<"!">>}

PrintedWords == {<<"1">>, <<"x">>, <<"x", " ", "+", " ", "2">>}

StrayTexts ==
    {Words(<<kw_print, e, t>>) \o rest :
        e \in PrintedWords, t \in StrayWords, rest \in {<<>>, <<"\n", "y">>}}

\* well-terminated print statements
PrintTexts ==
    {Words(<<kw_print, e>>) \o rest :
        e \in PrintedWords, rest \in {<<>>, <<"\n">>, <<"\n", "y">>}}

ConditionWords ==
    {<<"1", " ", "=", "=", " ", "1">>, <<"1", " ", "=", "=", " ", "2">>,
     <<"x", " ", "<", " ", "1">>, <<"x", " ", ">", " ", "1">>}

IfElseText(cond) ==
    Words(<<kw_if, cond, <<"{">>, kw_print, <<"9">>, <<"}">>, kw_else, <<"{">>,
            kw_print, <<"8">>, <<"}">> >>)

IfText(cond) == Words(<<kw_if, cond, <<"{">>, kw_print, <<"9">>, <<"}">> >>)

IfTexts == {IfElseText(cond) : cond \in ConditionWords} \cup {IfText(cond) : cond \in ConditionWords}

\* the right-hand sides of the assignments
ValueWords ==
    {<<"5">>, <<"y">>, <<"y", " ", "+", " ", "1">>, <<"\"", "a", "\"">>,
     <<"1", " ", "=", "=", " ", "1">>, <<"-", "2">>, <<"z", " ", "=", " ", "7">>,
     <<"(", " ", "z", " ", "=", " ", "7", " ", ")">>}

\* a binding of y, then x = e, then a read of x
AssignTexts ==
    {Lines(<<Words(<<(<<"y">>), (<<"=">>), y0>>), Words(<<(<<"x">>), (<<"=">>), e>>), (<<"x">>)>>) :
        y0 \in {<<"2">>, <<"\"", "b", "\"">>}, e \in ValueWords}

\* a binding of x, then x op= e, then a read of x
CompoundLines(x0, op, e) ==
    Lines(<<Words(<< <<"x">>, <<"=">>, x0 >>), Words(<< <<"x">>, op, e >>), <<"x">> >>)

\* the target is its own right-hand side only from small values, so that
\* repeated squaring stays within 32 bits
CompoundTexts ==
    {CompoundLines(x0, op, e) :
        x0 \in {<<"1", "0">>, <<"-", "7">>, <<"2", ".", "5">>},
        op \in CompoundWords,
        e \in {<<"3">>, <<"4">>, <<"0">>}}
    \cup {CompoundLines(x0, op, <<"x">>) :
            x0 \in {<<"2">>, <<"0", ".", "5">>}, op \in CompoundWords}

\* reads of names, literals and comparisons of strings
StringTexts ==
    {Lines(<<(<<"x", " ", "=", " ", "\"", "a", "\"">>), (<<"y", " ", "=", " ", "x">>), Words(<<(<<"x">>), op, (<<"y">>)>>)>>) : op \in {<<"=", "=">>, <<"=", "=", "=">>}}
    \cup {Lines(<<(<<"x", " ", "=", " ", "\"", "a", "\"">>), Words(<<(<<"y">>), (<<"=">>), lit>>), Words(<<(<<"x">>), op, (<<"y">>)>>)>>) :
            lit \in {<<"\"", "a", "\"">>, <<"\"", "b", "\"">>}, op \in {<<"=", "=">>, <<"=", "=", "=">>}}
    \cup {Words(<<kw_print, l, op, r>>) :
            l \in {<<"\"", "x", "\"">>, <<"\"", "y", "\"">>}, r \in {<<"\"", "x", "\"">>},
            op \in {<<"=", "=">>, <<"=", "=", "=">>}}
    \cup {Lines(<<(<<"x", " ", "=", " ", "\"", "a", "\"">>), Words(<<kw_print, (<<"x">>), op, r>>)>>) :
            r \in {<<"x">>, <<"\"", "a", "\"">>}, op \in {<<"=", "=">>, <<"=", "=", "=">>}}

ReadTexts ==
    {<<"z">>, <<"\"", "a", "\"">>, <<"-", "x">>, <<"!", " ", "x">>,
     Lines(<<(<<"y", " ", "=", " ", "2">>), (<<"z">>), (<<"y">>)>>),
     Lines(<<(<<"x", " ", "=", " ", "\"", "a", "\"">>), (<<"x">>), (<<"z">>)>>)}

\* s + t on two string literals, alone and printed
ConcatTexts ==
    {pre \o Words(<<l, <<"+">>, r>>) :
        pre \in {<<>>, kw_print \o <<" ">>},
        l \in {<<"\"", "a", "\"">>, <<"\"", "\"">>},
        r \in {<<"\"", "b", "\"">>, <<"\"", "a", "\"">>}}

\* the expressions of the return statements
ReturnWords ==
    {<<"3">>, <<"3", ".", "7">>, <<"-", " ", "2", ".", "5">>,
     <<"1", " ", "=", "=", " ", "1">>, <<"1", " ", "=", "=", " ", "2">>,
     <<"1", " ", "/", " ", "0">>, <<"x", " ", "+", "=", " ", "1">>}

PrintLine(w) == Words(<<kw_print, w>>)
IfLine == Words(<<kw_if, <<"1", " ", "=", "=", " ", "1">>, <<"{">> >>)

\* print 1, then return e at top level or inside one or two if blocks that
\* print 7 after it, then print 8 and y = 5
ReturnText(shape, e) ==
    CASE shape = "top" ->
            Lines(<<PrintLine(<<"1">>), Words(<<kw_return, e>>), PrintLine(<<"8">>),
                    <<"y", " ", "=", " ", "5">> >>)
      [] shape = "then" ->
            Lines(<<PrintLine(<<"1">>), IfLine, Words(<<kw_return, e>>),
                    PrintLine(<<"7">>), <<"}">>, PrintLine(<<"8">>),
                    <<"y", " ", "=", " ", "5">> >>)
      [] shape = "then2" ->
            Lines(<<PrintLine(<<"1">>), IfLine, IfLine, Words(<<kw_return, e>>),
                    PrintLine(<<"7">>), <<"}">>, PrintLine(<<"7">>), <<"}">>,
                    PrintLine(<<"8">>), <<"y", " ", "=", " ", "5">> >>)

ReturnTexts == {ReturnText(shape, e) : shape \in {"top", "then", "then2"}, e \in ReturnWords}

\* a = b = 1
ChainText == Words(<< <<"a">>, <<"=">>, <<"b">>, <<"=">>, <<"1">> >>)

Cond == <<"1", " ", "=", "=", " ", "1">>
Print9 == PrintLine(<<"9">>)
Print8 == PrintLine(<<"8">>)

\* if statements without a condition, without a block, with a block that no }
\* closes, and with an else that no closed block follows
MalformedIfTexts ==
    {Words(<<kw_if, <<"{">>, Print9, <<"}">> >>),
     Words(<<kw_if, Cond, Print9>>),
     Words(<<kw_if, Cond, <<"{">> >>),
     Words(<<kw_if, Cond, <<"{">>, Print9>>),
     Words(<<kw_if, Cond, <<"{">>, <<"x">> >>),
     Lines(<<Words(<<kw_if, Cond, <<"{">>, Print9>>), <<"x">> >>),
     Lines(<<Words(<<kw_if, Cond, <<"{">>, Print9>>), Print8>>),
     Words(<<kw_if, Cond, <<"{">>, Print9, <<"}">>, kw_else>>),
     Words(<<kw_if, Cond, <<"{">>, Print9, <<"}">>, kw_else, Print8>>),
     Words(<<kw_if, Cond, <<"{">>, Print9, <<"}">>, kw_else, <<"{">>, Print8>>),
     Lines(<<Words(<<kw_if, Cond, <<"{">>, Print9, <<"}">>, kw_else>>),
             Words(<< <<"{">>, Print8, <<"}">> >>)>>),
     Lines(<<Words(<<kw_if, Cond, <<"{">>, Print9, <<"}">>, kw_else>>), Print8>>)}

\* expressions with assignments among the operands of binary operators
AndText ==
    <<"1", " ", "=", "=", " ", "2", " ", "&", "&", " ", "(", " ",
     "y", " ", "=", " ", "2", " ", ")", " ", "=", "=", " ", "2">>
OrText ==
    <<"1", " ", "=", "=", " ", "1", " ", "|", "|", " ", "(", " ",
     "y", " ", "=", " ", "2", " ", ")", " ", "=", "=", " ", "3">>
SeenText == <<"(", " ", "x", " ", "=", " ", "3", " ", ")", " ", "+", " ", "x">>
UnseenText == <<"x", " ", "+", " ", "(", " ", "x", " ", "=", " ", "3", " ", ")">>
TwiceText ==
    <<"(", " ", "x", " ", "=", " ", "3", " ", ")", " ",
     "-", " ", "(", " ", "x", " ", "=", " ", "4", " ", ")">>
AndSeenText ==
    <<"(", " ", "x", " ", "=", " ", "1", " ", ")", " ", "=", "=",
     " ", "1", " ", "&", "&", " ", "x", " ", "=", "=", " ", "1">>
OrSeenText ==
    <<"(", " ", "x", " ", "=", " ", "1", " ", ")", " ", "=", "=", " ", "2", " ", "|",
     "|", " ", "(", " ", "y", " ", "=", " ", "x", " ", ")", " ", "=", "=", " ", "1">>

EagerTexts == {AndText, OrText, SeenText, UnseenText, TwiceText, AndSeenText, OrSeenText}

Sources ==
    TripleTexts \cup GroupedTexts \cup UnclosedTexts \cup StrayTexts \cup PrintTexts
    \cup IfTexts \cup AssignTexts \cup CompoundTexts \cup StringTexts \cup ReadTexts
    \cup ConcatTexts \cup ReturnTexts \cup {ChainText} \cup MalformedIfTexts
    \cup EagerTexts \cup {<<"x", "1">>}

----------------------------------------------------------------------------
(* the program: one buffer is parsed, then run and eval are called on it *)

MaxCalls == 3

NoParser == [current |-> NoToken]

Machine == [interp |-> interp, stdout |-> stdout, proc |-> proc]

\* no call of Parser::parse under way
Idle == [p |-> NoParser, stack |-> <<>>, ret |-> None]

Init ==
    /\ input = <<>>
    /\ parser = NoParser
    /\ program = None
    /\ interp = Interpreter_new
    /\ stdout = <<>>
    /\ proc = Running
    /\ result = NoValue
    /\ evaluated = NoExpr
    /\ heap = 0
    /\ calls = 0
    /\ parsing = Idle
    /\ steps = 0

\* Parser::new(Lexer::new(text)).parse()
Parsed(text, parsed) ==
    /\ input' = text
    /\ parser' = [lexer |-> parsed.p.lexer, current |-> parsed.p.current,
                  peek |-> parsed.p.peek]
    /\ program' = parsed.r
    /\ heap' = parsed.p.rc

Load(text) ==
    /\ parser = NoParser
    /\ program = None
    /\ Parsed(text, parse(Parser_new(Lexer_new(text), heap)))
    /\ UNCHANGED <<interp, stdout, proc, result, evaluated, calls, parsing, steps>>

\* a program handed to run as a value, without a source text
Build(statements) ==
    /\ parser = NoParser
    /\ program = None
    /\ program' = Some(statements)
    /\ UNCHANGED <<input, parser, interp, stdout, proc, result, evaluated, heap, calls,
                   parsing, steps>>

\* the interpreter, the output and the process after a call
Becomes(m) ==
    /\ interp' = m.interp
    /\ stdout' = m.stdout
    /\ proc' = m.proc

Returned(r) == Becomes(r.m) /\ result' = r.r

\* interpreter.run(&program)
RunProgram ==
    /\ program.some
    /\ proc = Running
    /\ calls < MaxCalls
    /\ Becomes(run(Machine, program.v))
    /\ result' = NoValue
    /\ evaluated' = NoExpr
    /\ calls' = calls + 1
    /\ UNCHANGED <<input, parser, program, heap, parsing, steps>>

\* interpreter.eval(&expr) on the expression of statement i
EvalStatement(i) ==
    /\ program.v[i].s \in {"Expr", "Print", "Return"}
    /\ proc = Running
    /\ calls < MaxCalls
    /\ Returned(eval(Machine, program.v[i].expr))
    /\ evaluated' = program.v[i].expr
    /\ calls' = calls + 1
    /\ UNCHANGED <<input, parser, program, heap, parsing, steps>>

Next ==
    \/ \E text \in Sources : Load(text)
    \/ \E statements \in Programs : Build(statements)
    \/ RunProgram
    \/ program.some /\ \E i \in DOMAIN program.v : EvalStatement(i)

Spec == Init /\ [][Next]_vars

----------------------------------------------------------------------------
(* Parser::parse step by step.  parsing = [p, stack, ret]: the parser, the  *)
(* frames of the calls under way and the value the last call returned.  A  *)
(* frame holds the function, the place in its body and its locals; at is   *)
(* the position of the lexer when the turn of its loop began.  A step runs *)
(* the function on top of the stack up to its next call, return or turn of *)
(* a loop.                                                                 *)

Frame(fn, pc) ==
    [fn |-> fn, pc |-> pc, at |-> 0, statements |-> <<>>, left |-> NoExpr,
     operator |-> "", precedence |-> "Lowest", condition |-> NoExpr,
     block |-> NoStatement]

ExprFrame(precedence) == [Frame("parse_expr", "entry") EXCEPT !.precedence = precedence]

Top(k) == k.stack[Len(k.stack)]

\* the function on top goes on as frame f
Goto(k, f) == [k EXCEPT !.stack[Len(k.stack)] = f]

Call(k, f) == [k EXCEPT !.stack = Append(@, f)]

Return(k, v) == [k EXCEPT !.stack = SubSeq(@, 1, Len(@) - 1), !.ret = v]

\* the function on top returns g.r and leaves the parser g.p
Leave(k, g) == Return([k EXCEPT !.p = g.p], g.r)

\* self.next()
Advance(k) == [k EXCEPT !.p = Parser_next(k.p)]

\* the turn of a loop begins here
Turn(k, f, pc) == [f EXCEPT !.pc = pc, !.at = k.p.lexer.position]

step_parse(k, f) ==
    CASE f.pc = "loop" ->
            IF k.p.current = NoToken THEN Return(k, Some(f.statements))
            ELSE Call(Goto(k, Turn(k, f, "statement")), Frame("parse_statement", "entry"))
      [] f.pc = "statement" ->
            IF k.ret = NoStatement THEN Return(k, None)
            ELSE Call(Goto(k, [f EXCEPT !.pc = "skipped",
                                        !.statements = Append(@, k.ret)]),
                      Frame("skip_newline_eof", "loop"))
      [] f.pc = "skipped" -> Advance(Goto(k, [f EXCEPT !.pc = "loop"]))

\* if self.current.is_none() { break; }
step_skip_break(k) == IF k.p.current = NoToken THEN Return(k, k.ret) ELSE k

step_skip_newline_eof(k, f) ==
    IF is_peek(k.p, NewLine) \/ peeking_eof(k.p) THEN step_skip_break(Advance(k))
    ELSE Return(k, k.ret)

step_parse_statement(k, f) ==
    CASE f.pc = "entry" ->
            CASE k.p.current = NoToken -> Return(k, NoStatement)
              [] k.p.current = TReserved("Print") ->
                    Goto(k, Frame("parse_print_statement", "entry"))
              [] k.p.current = TReserved("Return") ->
                    Goto(k, Frame("parse_return_statement", "entry"))
              [] k.p.current = TReserved("If") ->
                    Goto(k, Frame("parse_if_statement", "entry"))
              [] OTHER -> Call(Goto(k, [f EXCEPT !.pc = "expr"]), ExprFrame("Lowest"))
      [] f.pc = "expr" -> Leave(k, expr_statement([p |-> k.p, r |-> k.ret]))

step_parse_block(k, f) ==
    CASE f.pc = "entry" ->
            IF k.p.current = NoToken \/ k.p.current # LBrace THEN Return(k, NoStatement)
            ELSE Call(Goto(k, [f EXCEPT !.pc = "opened"]),
                      Frame("skip_newline_eof", "loop"))
      [] f.pc = "opened" -> Advance(Goto(k, [f EXCEPT !.pc = "loop"]))
      [] f.pc = "loop" ->
            IF k.p.current = NoToken THEN Return(k, NoStatement)
            ELSE IF k.p.current # RBrace /\ ~is_peek(k.p, RBrace) /\ ~peeking_eof(k.p)
            THEN Call(Goto(k, Turn(k, f, "statement")), Frame("parse_statement", "entry"))
            ELSE Return(k, Statement_Block(f.statements))
      [] f.pc = "statement" ->
            IF k.ret = NoStatement THEN Return(k, NoStatement)
            ELSE Call(Goto(k, [f EXCEPT !.pc = "skipped",
                                        !.statements = Append(@, k.ret)]),
                      Frame("skip_newline_eof", "loop"))
      [] f.pc = "skipped" -> Advance(Goto(k, [f EXCEPT !.pc = "loop"]))

\* the prefix term is a token: left is g.r, the parser g.p
step_term(k, f, g) == Goto([k EXCEPT !.p = g.p], [f EXCEPT !.pc = "loop", !.left = g.r])

\* let mut left = self.parse_prefix()?;
step_parse_prefix(k, f) ==
    CASE k.p.current = NoToken -> Return(k, NoExpr)
      [] k.p.current.t = "Operator" /\ k.p.current.op \in {"Plus", "Minus", "Not"} ->
            Call(Goto(k, [f EXCEPT !.pc = "prefix"]), Frame("parse_prefix_expr", "entry"))
      [] k.p.current = LParen ->
            Call(Goto(k, [f EXCEPT !.pc = "prefix"]), Frame("parse_grouped_expr", "entry"))
      [] k.p.current.t \in {"Identifier", "Number", "String"} ->
            step_term(k, f, parse_prefix(k.p))
      [] OTHER -> Return(k, NoExpr)

\* the parse that Operator::from(token) ends with a panic
ParsePanicked == [some |-> FALSE, panicked |-> TRUE]

\* the body of the while loop of parse_expr, after self.next(): parse_postfix
\* returns None on no token, panics on a token that is no operator and has
\* no match for an operator; parse_infix returns left for the operator !
step_parse_infix(k, f) ==
    CASE k.p.current = NoToken -> Return(k, NoExpr)
      [] k.p.current.t # "Operator" -> [k EXCEPT !.stack = <<>>, !.ret = ParsePanicked]
      [] k.p.current.op # "Not" ->
            Call(Goto(k, [f EXCEPT !.pc = "infix"]),
                 [Frame("parse_infix_expr", "entry") EXCEPT !.left = f.left])
      [] OTHER -> k

step_parse_expr(k, f) ==
    CASE f.pc = "entry" -> step_parse_prefix(k, f)
      [] f.pc \in {"prefix", "infix"} ->
            IF k.ret = NoExpr THEN Return(k, NoExpr)
            ELSE Goto(k, [f EXCEPT !.pc = "loop", !.left = k.ret])
      [] f.pc = "loop" ->
            IF continues(f.precedence, k.p)
            THEN step_parse_infix(Advance(Goto(k, Turn(k, f, "loop"))), Turn(k, f, "loop"))
            ELSE Return(k, f.left)

step_parse_infix_expr(k, f) ==
    CASE f.pc = "entry" ->
            IF k.p.current = NoToken THEN Return(k, NoExpr)
            ELSE Advance(Call(Goto(k, [f EXCEPT !.pc = "right",
                                                !.operator = k.p.current.op]),
                              ExprFrame(Precedence_from(k.p.current))))
      [] f.pc = "right" -> Leave(k, infix_of(f.left, f.operator, [p |-> k.p, r |-> k.ret]))

step_parse_prefix_expr(k, f) ==
    CASE f.pc = "entry" ->
            IF k.p.current.t # "Operator" THEN Return(k, NoExpr)
            ELSE Advance(Call(Goto(k, [f EXCEPT !.pc = "right",
                                                !.operator = k.p.current.op]),
                              ExprFrame("Prefix")))
      [] f.pc = "right" -> Leave(k, prefix_of(f.operator, [p |-> k.p, r |-> k.ret]))

step_parse_grouped_expr(k, f) ==
    CASE f.pc = "entry" -> Advance(Call(Goto(k, [f EXCEPT !.pc = "inner"]),
                                        ExprFrame("Lowest")))
      [] f.pc = "inner" -> Leave(k, grouped_close([p |-> k.p, r |-> k.ret]))

step_parse_print_statement(k, f) ==
    CASE f.pc = "entry" -> Advance(Call(Goto(k, [f EXCEPT !.pc = "expr"]),
                                        ExprFrame("Lowest")))
      [] f.pc = "expr" -> Leave(k, print_of([p |-> k.p, r |-> k.ret]))

step_parse_return_statement(k, f) ==
    CASE f.pc = "entry" -> Advance(Call(Goto(k, [f EXCEPT !.pc = "expr"]),
                                        ExprFrame("Lowest")))
      [] f.pc = "expr" -> Leave(k, return_of([p |-> k.p, r |-> k.ret]))

step_parse_if_statement(k, f) ==
    CASE f.pc = "entry" -> Advance(Call(Goto(k, [f EXCEPT !.pc = "condition"]),
                                        ExprFrame("Lowest")))
      [] f.pc = "condition" ->
            Advance(Call(Goto(k, [f EXCEPT !.pc = "block", !.condition = k.ret]),
                         Frame("parse_block", "entry")))
      [] f.pc = "block" ->
            IF k.ret = NoStatement THEN Return(k, NoStatement)
            ELSE IF is_peek(k.p, TReserved("Else"))
            THEN Call(Goto([k EXCEPT !.p = else_entry(k.p)],
                           [f EXCEPT !.pc = "else", !.block = k.ret]),
                      Frame("parse_block", "entry"))
            ELSE Leave(k, if_of([r |-> f.condition], [r |-> k.ret],
                                [p |-> k.p, r |-> NoStatement]))
      [] f.pc = "else" ->
            Leave(k, if_of([r |-> f.condition], [r |-> f.block],
                           [p |-> k.p, r |-> k.ret]))

step(k, f) ==
    CASE f.fn = "parse" -> step_parse(k, f)
      [] f.fn = "skip_newline_eof" -> step_skip_newline_eof(k, f)
      [] f.fn = "parse_statement" -> step_parse_statement(k, f)
      [] f.fn = "parse_block" -> step_parse_block(k, f)
      [] f.fn = "parse_expr" -> step_parse_expr(k, f)
      [] f.fn = "parse_infix_expr" -> step_parse_infix_expr(k, f)
      [] f.fn = "parse_prefix_expr" -> step_parse_prefix_expr(k, f)
      [] f.fn = "parse_grouped_expr" -> step_parse_grouped_expr(k, f)
      [] f.fn = "parse_print_statement" -> step_parse_print_statement(k, f)
      [] f.fn = "parse_return_statement" -> step_parse_return_statement(k, f)
      [] f.fn = "parse_if_statement" -> step_parse_if_statement(k, f)

\* the parser and the stack when parse is entered
Start(text) ==
    [p |-> Parser_new(Lexer_new(text), 0), stack |-> <<Frame("parse", "loop")>>,
     ret |-> None]

\* one, two and three of these pieces, separated by spaces
Pieces ==
    {kw_if, kw_else, kw_print, kw_return, <<"{">>, <<"}">>, <<"(">>, <<")">>, <<"1">>,
     <<"x">>, <<"+">>, <<"=">>, <<"!">>, <<"\n">>, <<"\"", "a", "\"">>, <<"\"">>}

PieceTexts ==
    Pieces \cup {Words(<<a, b>>) : a, b \in Pieces}
    \cup {Words(<<a, b, c>>) : a, b, c \in Pieces}

ParseSources ==
    PieceTexts \cup IfTexts \cup MalformedIfTexts \cup ReturnTexts \cup UnclosedTexts
    \cup StrayTexts \cup StringTexts \cup EagerTexts \cup {ChainText}

\* Parser::new(Lexer::new(text)), and the call of parse
ParseCall(text) ==
    /\ parsing = Idle
    /\ parser = NoParser
    /\ input' = text
    /\ parsing' = Start(text)
    /\ UNCHANGED <<parser, program, interp, stdout, proc, result, evaluated, heap,
                   calls, steps>>

\* the function on top of the stack runs up to its next call or return
ParseStep ==
    /\ parsing.stack # <<>>
    /\ parsing' = step(parsing, Top(parsing))
    /\ steps' = 1 - steps
    /\ UNCHANGED <<input, parser, program, interp, stdout, proc, result, evaluated,
                   heap, calls>>

\* parse has returned to its caller
ParseReturn ==
    /\ parsing # Idle
    /\ parsing.stack = <<>>
    /\ parser = NoParser
    /\ parser' = [lexer |-> parsing.p.lexer, current |-> parsing.p.current,
                  peek |-> parsing.p.peek]
    /\ program' = parsing.ret
    /\ heap' = parsing.p.rc
    /\ UNCHANGED <<input, interp, stdout, proc, result, evaluated, calls, parsing,
                   steps>>

ParseNext ==
    \/ \E text \in ParseSources : ParseCall(text)
    \/ ParseStep
    \/ ParseReturn

\* a step of the call of parse, told by the count of the steps: step is
\* defined on every stack that is not empty, so ParseStep is enabled exactly
\* when this is
Tick == parsing.stack # <<>> /\ steps' = 1 - steps

\* once parse is called, the one thread of the program always takes its next
\* step
ParseSpec == Init /\ [][ParseNext]_vars /\ WF_steps(Tick) /\ WF_vars(ParseReturn)

----------------------------------------------------------------------------
(* properties *)

\* the name-to-value map of the interpreter
bindings == interp.global_context.vars

\* the step is a call of eval
EvalCalled == calls' = calls + 1 /\ evaluated' # NoExpr

\* the value of an expression in the state before the step
ValueOf(expr) == eval(Machine, expr).r

Number_(k) == Primitive_Number(F64(k, 1))

Name(c) == Expr_Identifier(<<c>>)

\* the words of a text, split at its spaces
RECURSIVE SplitWords(_, _, _)
SplitWords(chars, word, done) ==
    IF chars = <<>> THEN Append(done, word)
    ELSE IF Head(chars) = " " THEN SplitWords(Tail(chars), <<>>, Append(done, word))
    ELSE SplitWords(Tail(chars), Append(word, Head(chars)), done)

\* the operand a word denotes: a number when it reads as one, else a name
OperandExpr(w) ==
    IF parse_f64(w).ok THEN Expr_Number(parse_f64(w).v) ELSE Expr_Identifier(w)

\* the rows of the precedence table, from the loosest to the tightest
Strength(w) ==
    CASE w = <<"|", "|">> -> 1
      [] w = <<"&", "&">> -> 2
      [] w = <<"|">> -> 3
      [] w = <<"&">> -> 4
      [] w \in {<<"=", "=">>, <<"!", "=">>} -> 5
      [] w \in {<<"<">>, <<"<", "=">>, <<">">>, <<">", "=">>, <<"=", "=", "=">>} -> 6
      [] w \in {<<"+">>, <<"-">>} -> 7
      [] w \in {<<"*">>, <<"/">>, <<"%">>} -> 8

LeftGrouping(a, op1, b, op2, c) ==
    Expr_InfixExpr(Expr_InfixExpr(OperandExpr(a), OperatorFrom(op1), OperandExpr(b)),
                   OperatorFrom(op2), OperandExpr(c))

RightGrouping(a, op1, b, op2, c) ==
    Expr_InfixExpr(OperandExpr(a), OperatorFrom(op1),
                   Expr_InfixExpr(OperandExpr(b), OperatorFrom(op2), OperandExpr(c)))

\* the tree of the words a op1 b op2 c
ExpectedGrouping(w) ==
    IF Strength(w[4]) > Strength(w[2])
    THEN RightGrouping(w[1], w[2], w[3], w[4], w[5])
    ELSE LeftGrouping(w[1], w[2], w[3], w[4], w[5])

OnePlusTwoTimesThree == Words(<< <<"1">>, <<"+">>, <<"2">>, <<"*">>, <<"3">> >>)

\* C1: a text a op1 b op2 c parses to the one statement that groups b with
\* op2 when op2 binds tighter than op1 and with op1 otherwise, and an eval of
\* the expression of 1 + 2 * 3 returns Number(7)
PrecedenceGrouping ==
    /\ input \in TripleTexts =>
          program = Some(<<Statement_Expr(ExpectedGrouping(SplitWords(input, <<>>, <<>>)))>>)
    /\ (input = OnePlusTwoTimesThree /\ evaluated # NoExpr) => result = Number_(7)

\* the tokens the lexer yields until its first None
RECURSIVE TokensFrom(_)
TokensAfter(t) == IF t.tok = NoToken THEN <<>> ELSE <<t.tok>> \o TokensFrom(t.l)
TokensFrom(l) == TokensAfter(token(l))

Count(tokens, tok) == Cardinality({i \in DOMAIN tokens : tokens[i] = tok})

\* C2: a text ( a op1 b ) op2 c, with or without spaces inside the
\* parentheses, lexes to one LParen and one RParen among its tokens and parses
\* to the one statement that groups a op1 b first
GroupedOperand ==
    input \in GroupedTexts =>
        /\ Count(TokensFrom(Lexer_new(input)), LParen) = 1
        /\ Count(TokensFrom(Lexer_new(input)), RParen) = 1
        /\ \E a \in FirstOperands, op1 \in GroupOperatorWords, b \in SecondOperands,
              op2 \in GroupOperatorWords, c \in ThirdOperands,
              open \in Separators, close \in Separators :
                /\ input = Grouped(a, op1, b, op2, c, open, close)
                /\ program = Some(<<Statement_Expr(LeftGrouping(a, op1, b, op2, c))>>)

AssignOperators ==
    {"Assign", "AddAssign", "SubAssign", "MulAssign", "DivAssign", "ModAssign"}

CompoundOperators == AssignOperators \ {"Assign"}

\* the names an evaluation of the expression assigns
RECURSIVE AssignedIn(_)
AssignedIn(expr) ==
    CASE expr.e = "InfixExpr" ->
            (IF expr.operator \in AssignOperators /\ expr.left.e = "Identifier"
             THEN {expr.left.name} ELSE {})
            \cup AssignedIn(expr.left) \cup AssignedIn(expr.right)
      [] expr.e = "PrefixExpr" -> AssignedIn(expr.right)
      [] OTHER -> {}

\* the expression assigns to a name with one of the operators
IsAssignment(expr, operators) ==
    expr.e = "InfixExpr" /\ expr.operator \in operators /\ expr.left.e = "Identifier"

\* the step leaves the bindings of all names but these as they were
Untouched(names) ==
    \A k \in (DOMAIN bindings \cup DOMAIN bindings') \ names :
        k \in DOMAIN bindings /\ k \in DOMAIN bindings' /\ bindings'[k] = bindings[k]

\* the step returns v, binds x to v and keeps the names e does not assign
Stores(x, e, v) ==
    /\ result' = v
    /\ x \in DOMAIN bindings'
    /\ bindings'[x] = v
    /\ Untouched({x} \cup AssignedIn(e))

\* the step evaluates the target of the assignment evaluated before it
ReadsTarget(operators) ==
    /\ EvalCalled
    /\ IsAssignment(evaluated, operators)
    /\ result # NoValue
    /\ evaluated' = Expr_Identifier(evaluated.left.name)

\* C3: an eval of x = e, where e evaluates to v, returns v and binds x to v,
\* changes the binding of no name other than x and the names e assigns, and an
\* eval of x that follows it returns v
SimpleAssignment ==
    [][/\ (EvalCalled /\ IsAssignment(evaluated', {"Assign"})
              /\ ValueOf(evaluated'.right) # NoValue)
          => Stores(evaluated'.left.name, evaluated'.right, ValueOf(evaluated'.right))
       /\ ReadsTarget({"Assign"}) => result' = result]_vars

AssignText(y0, e) ==
    Lines(<<Words(<< <<"y">>, <<"=">>, y0 >>), Words(<< <<"x">>, <<"=">>, e >>), <<"x">> >>)

SimpleAssignmentWitness ==
    /\ input = AssignText(<<"2">>, <<"y", " ", "+", " ", "1">>)
    /\ calls = 3
    /\ evaluated = Name("x")
    /\ result = Number_(3)
    /\ bindings = [k \in {<<"x">>, <<"y">>} |-> IF k = <<"x">> THEN Number_(3) ELSE Number_(2)]

\* a op b for the operator of a compound assignment
Arith(op, a, b) ==
    CASE op = "AddAssign" -> f64_add(a, b)
      [] op = "SubAssign" -> f64_sub(a, b)
      [] op = "MulAssign" -> f64_mul(a, b)
      [] op = "DivAssign" -> f64_div(a, b)
      [] op = "ModAssign" -> f64_rem(a, b)

\* the name is bound to a Number
BoundToNumber(x) == x \in DOMAIN bindings /\ bindings[x].p = "Number"

Applies(x, op, b) ==
    /\ result' = Primitive_Number(Arith(op, bindings[x].n, b.n))
    /\ x \in DOMAIN bindings'
    /\ bindings'[x] = result'

\* C4: an eval of x op= e, where x is bound to Number(a) and e evaluates to
\* Number(b), returns Number(a op b) and binds x to it, and an eval of x that
\* follows it returns the same value
CompoundAssignment ==
    [][/\ (EvalCalled /\ IsAssignment(evaluated', CompoundOperators)
              /\ BoundToNumber(evaluated'.left.name)
              /\ ValueOf(evaluated'.right).p = "Number")
          => Applies(evaluated'.left.name, evaluated'.operator, ValueOf(evaluated'.right))
       /\ ReadsTarget(CompoundOperators) => result' = result]_vars

CompoundAssignmentWitness ==
    /\ input = CompoundLines(<<"1", "0">>, <<"-", "=">>, <<"3">>)
    /\ calls = 3
    /\ evaluated = Name("x")
    /\ result = Number_(7)
    /\ bindings[<<"x">>] = Number_(7)

\* the conditions of ConditionWords that are true when no name is bound
TrueConditions == {<<"1", " ", "=", "=", " ", "1">>, <<"x", " ", "<", " ", "1">>}

\* the program is one If statement, with an else block or without
OneIf(with_else) ==
    /\ program.some
    /\ Len(program.v) = 1
    /\ program.v[1].s = "If"
    /\ (program.v[1].else_block # NoStatement) = with_else

\* the state after one call of run on the program
RanOnce == calls = 1 /\ evaluated = NoExpr

\* C5: if c { print 9 } else { print 8 } parses to an If statement with an
\* else block, and one run of it prints 9 alone when c is true and 8 alone when
\* c is false; one run of if c { print 9 } with c false prints nothing
IfElseSelects ==
    \A cond \in ConditionWords :
        /\ input = IfElseText(cond) =>
              /\ OneIf(TRUE)
              /\ RanOnce => stdout = <<IF cond \in TrueConditions THEN <<"9">> ELSE <<"8">> >>
        /\ input = IfText(cond) =>
              /\ OneIf(FALSE)
              /\ (RanOnce /\ cond \notin TrueConditions) => stdout = <<>>

\* C6: a text with a ( that no ) closes does not parse, whether a space, a
\* digit or a letter follows the (
UnclosedGroupFails == input \in UnclosedTexts => ~program.some

\* C7: a text in which the expression of a print statement is followed on its
\* line by a token that neither ends the statement nor continues the expression
\* does not parse
StrayTokenFails == input \in StrayTexts => ~program.some

\* C8: an eval of an identifier that has no binding returns Number(0.0), does
\* not panic and leaves the interpreter as it was
UnboundIdentifier ==
    [][(EvalCalled /\ evaluated'.e = "Identifier" /\ evaluated'.name \notin DOMAIN bindings)
          => /\ result' = Primitive_Number(Zero)
             /\ proc' = Running
             /\ interp' = interp]_vars

UnboundIdentifierWitness ==
    /\ evaluated = Name("z")
    /\ result = Primitive_Number(Zero)
    /\ proc = Running
    /\ DOMAIN bindings = {<<"y">>}

\* the expression holds no assignment and no compound assignment
RECURSIVE Pure(_)
Pure(expr) ==
    CASE expr.e = "InfixExpr" ->
            expr.operator \notin AssignOperators /\ Pure(expr.left) /\ Pure(expr.right)
      [] expr.e = "PrefixExpr" -> Pure(expr.right)
      [] OTHER -> TRUE

\* C9: an eval of an expression without assignments that returns a value
\* leaves the name-to-value map and the stack as they were, and returns the
\* value the eval of the same expression just before it returned
PureEvaluation ==
    [][(EvalCalled /\ Pure(evaluated') /\ result' # NoValue)
          => /\ interp'.global_context.vars = interp.global_context.vars
             /\ interp'.stack = interp.stack
             /\ (evaluated = evaluated' /\ result # NoValue) => result' = result]_vars

\* the one expression of the text evaluated twice: a run would have printed
PureEvaluationWitness ==
    /\ input = Words(<<kw_print, <<"x">>, <<"+">>, <<"2">> >>)
    /\ calls = 2
    /\ stdout = <<>>
    /\ evaluated = Expr_InfixExpr(Name("x"), "Plus", Expr_Number(F64(2, 1)))
    /\ result = Number_(2)
    /\ bindings = Context_new.vars

\* the expression is a literal or a name whose value is a String
StringOperand(expr) == expr.e \in {"String", "Identifier"} /\ ValueOf(expr).p = "String"

\* two operands hold one allocation: two literals never do, a name holds the
\* allocation of the literal its value was copied from
SameOccurrence(l, r) ==
    /\ ~(l.e = "String" /\ r.e = "String")
    /\ ValueOf(l).value.rc = ValueOf(r).value.rc

SameContent(l, r) == ValueOf(l).value.str = ValueOf(r).value.str

\* C10: on two String operands == returns whether the contents are equal and
\* === returns whether the two come from one occurrence of a literal
StringComparison ==
    [][(EvalCalled /\ evaluated'.e = "InfixExpr"
           /\ evaluated'.operator \in {"Equal", "ObjectEqual"}
           /\ StringOperand(evaluated'.left) /\ StringOperand(evaluated'.right))
          => result' = Primitive_Boolean(
                          IF evaluated'.operator = "Equal"
                          THEN SameContent(evaluated'.left, evaluated'.right)
                          ELSE SameOccurrence(evaluated'.left, evaluated'.right))]_vars

StringComparisonWitness ==
    /\ input = Lines(<< <<"x", " ", "=", " ", "\"", "a", "\"">>, <<"y", " ", "=", " ", "x">>,
                        <<"x", " ", "=", "=", "=", " ", "y">> >>)
    /\ evaluated = Expr_InfixExpr(Name("x"), "ObjectEqual", Name("y"))
    /\ result = Primitive_Boolean(TRUE)
    /\ bindings[<<"x">>] = bindings[<<"y">>]

\* C11: an eval of s + t on two string literals returns a String whose content
\* is the content of s followed by that of t, held by an allocation that is
\* neither operand's
StringConcatenation ==
    (/\ evaluated.e = "InfixExpr"
     /\ evaluated.operator = "Plus"
     /\ evaluated.left.e = "String"
     /\ evaluated.right.e = "String")
    => /\ result.p = "String"
       /\ result.value.str = evaluated.left.value.str \o evaluated.right.value.str
       /\ result.value.rc \notin {evaluated.left.value.rc, evaluated.right.value.rc}

\* the step is a call of run
RunCalled == calls' = calls + 1 /\ evaluated' = NoExpr

\* the expression a return statement of the texts parses to
ReturnExprOf(w) ==
    CASE w = <<"3">> -> Expr_Number(F64(3, 1))
      [] w = <<"3", ".", "7">> -> Expr_Number(F64(37, 10))
      [] w = <<"-", " ", "2", ".", "5">> -> Expr_PrefixExpr("Minus", Expr_Number(F64(25, 10)))
      [] w = <<"1", " ", "=", "=", " ", "1">> -> Expr_InfixExpr(One, "Equal", One)
      [] w = <<"1", " ", "=", "=", " ", "2">> ->
            Expr_InfixExpr(One, "Equal", Expr_Number(F64(2, 1)))
      [] w = <<"1", " ", "/", " ", "0">> -> Expr_InfixExpr(One, "Div", Expr_Number(Zero))
      [] w = <<"x", " ", "+", "=", " ", "1">> ->
            Expr_InfixExpr(Expr_Identifier(<<"x">>), "AddAssign", One)

\* the whole number x is bound to, 0 when it is bound to none
WholeOf(x) ==
    IF x \in DOMAIN bindings /\ bindings[x].p = "Number" THEN bindings[x].n.num ELSE 0

\* the exit status of return e: the number cut at its point, the largest i32
\* for the infinite one, 1 and 0 for true and false
ExitCode(e) ==
    CASE e = Expr_Number(F64(3, 1)) -> 3
      [] e = Expr_Number(F64(37, 10)) -> 3
      [] e = Expr_PrefixExpr("Minus", Expr_Number(F64(25, 10))) -> -2
      [] e = Expr_InfixExpr(One, "Equal", One) -> 1
      [] e = Expr_InfixExpr(One, "Equal", Expr_Number(F64(2, 1))) -> 0
      [] e = Expr_InfixExpr(One, "Div", Expr_Number(Zero)) -> 2147483647
      [] e = Expr_InfixExpr(Expr_Identifier(<<"x">>), "AddAssign", One) ->
            WholeOf(<<"x">>) + 1

\* the bindings after one evaluation of e
EvaluatedOnce(e) ==
    IF e.e = "InfixExpr" /\ e.operator = "AddAssign"
    THEN /\ e.left.name \in DOMAIN bindings'
         /\ bindings'[e.left.name] = Number_(WholeOf(e.left.name) + 1)
         /\ Untouched({e.left.name})
    ELSE bindings' = bindings

\* C12: a run of print 1, a statement that holds return e, print 8, y = 5,
\* where the return is at top level or inside blocks, then-branches and
\* else-branches (after it, in its block and in the blocks around it, comes
\* print 7) evaluates e once, ends the process with the value of e as an i32
\* for exit status, and prints 1 alone and binds nothing after e; the texts
\* with the return at top level and inside if blocks parse to these programs
ReturnEnds ==
    [][/\ \A shape \in ReturnShapes, e \in ReturnExprs :
            (RunCalled /\ program = Some(ReturnProgram(shape, e)))
            => /\ proc' = Exited(ExitCode(e))
               /\ stdout' = Append(stdout, <<"1">>)
               /\ EvaluatedOnce(e)
       /\ \A shape \in {"top", "then", "then2"}, w \in ReturnWords :
            input' = ReturnText(shape, w)
            => program' = Some(ReturnProgram(shape, ReturnExprOf(w)))]_vars

ReturnEndsWitness ==
    /\ input = ReturnText("then2", <<"3", ".", "7">>)
    /\ calls = 1
    /\ proc = Exited(3)
    /\ stdout = << <<"1">> >>
    /\ bindings = Context_new.vars

\* C13: a = b = 1 parses to the assignment of b = 1 to a, and after a run or
\* an eval of it the process has not panicked and a and b are both bound to 1
ChainedAssignment ==
    input = ChainText
    => /\ program = Some(<<Statement_Expr(
                Expr_InfixExpr(Name("a"), "Assign",
                               Expr_InfixExpr(Name("b"), "Assign", One)))>>)
       /\ calls > 0 => /\ proc = Running
                       /\ {<<"a">>, <<"b">>} \subseteq DOMAIN bindings
                       /\ bindings[<<"a">>] = Number_(1)
                       /\ bindings[<<"b">>] = Number_(1)

\* C14: a text whose if has no condition, or no block closed by } for its
\* then-part, or an else that no block closed by } follows at once, does not
\* parse
MalformedIfFails == input \in MalformedIfTexts => ~program.some

\* the value and the bindings expected of one eval of each text
EagerCases ==
    {[text |-> AndText, value |-> Primitive_Boolean(FALSE),
      binds |-> (<<"y">> :> Number_(2))],
     [text |-> OrText, value |-> Primitive_Boolean(TRUE),
      binds |-> (<<"y">> :> Number_(2))],
     [text |-> SeenText, value |-> Number_(6), binds |-> (<<"x">> :> Number_(3))],
     [text |-> UnseenText, value |-> Number_(WholeOf(<<"x">>) + 3),
      binds |-> (<<"x">> :> Number_(3))],
     [text |-> TwiceText, value |-> Number_(-1), binds |-> (<<"x">> :> Number_(4))],
     [text |-> AndSeenText, value |-> Primitive_Boolean(TRUE),
      binds |-> (<<"x">> :> Number_(1))],
     [text |-> OrSeenText, value |-> Primitive_Boolean(TRUE),
      binds |-> (<<"x">> :> Number_(1)) @@ (<<"y">> :> Number_(1))]}

\* the operators of the infix expressions that do not assign
BinaryOperators ==
    {"Plus", "Minus", "Mul", "Div", "Mod", "Equal", "ObjectEqual", "NotEqual",
     "GreaterThan", "GreaterThanEqual", "LessThan", "LessThanEqual", "LogicalAnd",
     "LogicalOr", "BitAnd", "BitOr"}

\* the step leaves the interpreter as the right operand, evaluated after the
\* left one, leaves it, and returns the operator applied to the two values
LeftThenRight(l, r, op) ==
    (l.r # NoValue /\ r.r # NoValue)
    => /\ interp' = r.m.interp
       /\ result' = apply_infix(r.m, NoExpr, op, l.r, r.r).r

\* C15: an eval of left op right, && and || included, evaluates left, then
\* right in the interpreter left has left, then applies op to the two values:
\* an assignment in the right operand of && or || binds its name whatever the
\* left operand is, and one in the left operand is read by the right operand
EagerOrdered ==
    [][/\ (EvalCalled /\ evaluated'.e = "InfixExpr"
              /\ evaluated'.operator \in BinaryOperators)
          => LeftThenRight(eval(Machine, evaluated'.left),
                           eval(eval(Machine, evaluated'.left).m, evaluated'.right),
                           evaluated'.operator)
       /\ \A c \in EagerCases :
            (EvalCalled /\ input = c.text)
            => /\ result' = c.value
               /\ bindings' = c.binds
               /\ proc' = Running]_vars

EagerOrderedWitness ==
    /\ input = AndText
    /\ calls = 1
    /\ evaluated # NoExpr
    /\ result = Primitive_Boolean(FALSE)
    /\ bindings = (<<"y">> :> Number_(2))

\* the index of the first character at or after i that is no space or tab
RECURSIVE FirstNonSpace(_, _)
FirstNonSpace(chars, i) ==
    IF i < Len(chars) /\ chars[i + 1] \in {" ", "\t"} THEN FirstNonSpace(chars, i + 1)
    ELSE i

\* the characters from index i up to the next whitespace or the end
RECURSIVE RunFrom(_, _)
RunFrom(chars, i) ==
    IF i >= Len(chars) \/ chars[i + 1] \in {" ", "\t", "\n", "\r", "\f"} THEN <<>>
    ELSE <<chars[i + 1]>> \o RunFrom(chars, i + 1)

MaximalRun(l) == RunFrom(l.tokens, FirstNonSpace(l.tokens, l.position))

\* every identifier among the tokens from l on is the maximal run at its call
RECURSIVE KeepsRuns(_)
KeptAfter(l, r) ==
    \/ r.tok = NoToken
    \/ /\ r.tok.t = "Identifier" => r.tok.name = MaximalRun(l)
       /\ KeepsRuns(r.l)
KeepsRuns(l) == KeptAfter(l, token(l))

\* C16: whenever a call of token on the text returns Identifier(t), t is the
\* maximal run of non-whitespace characters from the first non-space character
\* at which the call began; x1 lexes to Identifier(x1)
IdentifierKeepsRun ==
    /\ KeepsRuns(Lexer_new(input))
    /\ input = <<"x", "1">> => TokensFrom(Lexer_new(input)) = <<TIdentifier(<<"x", "1">>)>>

\* the step brings the function on top of the stack back to the head of its
\* loop
TurnsLoop ==
    /\ parsing'.stack # <<>>
    /\ Len(parsing'.stack) = Len(parsing.stack)
    /\ Top(parsing').pc = "loop"
    /\ Top(parsing).pc \in {"loop", "skipped", "infix"}

\* the position of the lexer when the turn that ends with the step began
TurnBegan ==
    IF Top(parsing).pc = "loop" THEN parsing.p.lexer.position ELSE Top(parsing).at

\* C17: Parser::new followed by Parser::parse returns, with a program or with
\* None; the two calls of Lexer::token in Parser::new move the position of the
\* lexer on by two or more, every turn of the loops of parse,
\* skip_newline_eof, parse_block and parse_expr ends with the lexer further on
\* than it began, and every step that calls Lexer::token moves the position
\* on by one or more
ParsingTerminates ==
    /\ [][/\ (parsing = Idle /\ parsing' # Idle) => parsing'.p.lexer.position >= 2
          /\ parsing.stack # <<>>
                => /\ TurnsLoop => parsing'.p.lexer.position > TurnBegan
                   /\ parsing'.p.lexer # parsing.p.lexer
                         => parsing'.p.lexer.position >= parsing.p.lexer.position + 1]_vars
    /\ (parsing # Idle) ~> /\ parser # NoParser
                           /\ parsing.stack = <<>>
                           /\ (program = None \/ program.some)

ParsingTerminatesWitness ==
    /\ input = ReturnText("then2", <<"3">>)
    /\ parsing.stack = <<>>
    /\ parser # NoParser
    /\ program = Some(ReturnProgram("then2", Expr_Number(F64(3, 1))))

====
